---------------------------- MODULE Spec2Model ----------------------------
(***************************************************************************)
(* Model of src/mood_detection.py: the pet mood pipeline.                  *)
(*                                                                         *)
(* The script calls an object detector on one image, scans the detections  *)
(* in order for the first one labelled "dog" or "cat", crops it, asks an   *)
(* image-text model for a distribution over four moods, takes the argmax,  *)
(* looks up a recommendation, prints the result and shows an annotated     *)
(* image.  The two pretrained models are external: their outputs are       *)
(* inputs of the model, drawn from bounded sets.                           *)
(*                                                                         *)
(* Numbers.  Box coordinates come from the detector as floats; they are    *)
(* held here in fixed point, in units of 1/Scale pixel.  Probabilities are *)
(* held in units of 1/ProbTotal, so a distribution is four naturals that   *)
(* sum to ProbTotal.  Strings are ASCII here: an emoji of the source is    *)
(* written as its code point, e.g. (U+1F4A7).                              *)
(***************************************************************************)
EXTENDS Integers, Sequences, FiniteSets, TLC

VARIABLES
    pc,             \* position of the script (lines 104-128)
    results,        \* r.boxes of detect_and_crop: the detector's output
    i,              \* number of detections the for loop has taken so far
    pet_type,       \* line 105
    cropped,        \* line 105
    box_coords,     \* line 105
    probs,          \* classify_mood: the softmax row
    mood,           \* line 108
    confidence,     \* line 108
    rec,            \* line 109
    annotated_img,  \* line 116
    calls           \* every call made so far, in order (model calls, crop,
                    \* the pipeline's functions, print, cv2 display calls)

vars == <<pc, results, i, pet_type, cropped, box_coords, probs, mood,
          confidence, rec, annotated_img, calls>>

-----------------------------------------------------------------------------
(* Bounds *)

MaxDet == 2         \* longest detector output
Scale == 2          \* fixed-point units per pixel of a reported coordinate
ProbTotal == 10     \* fixed-point units of probability 1
MaxCalls == 2       \* repeated calls of get_recommendation in SpecRec

-----------------------------------------------------------------------------
(* Values *)

\* Python's None where a string is expected (pet_type, mood, rec), and the
\* value of a string name not bound yet.
None == "None"

\* Python's None where an object is expected (cropped, box_coords,
\* annotated_img, probs), and the value of such a name not bound yet.
NoneObj == <<>>

\* confidence before line 108 binds it.
NoneNum == -1

image_path == "./ML-AI/dog_sample.jpg"

\* Class names of the detector (a part of r.names: two pets, one other).
Labels == {"dog", "cat", "car"}

\* Boxes the detector may report, in 1/Scale pixel: one on whole pixels, one
\* with fractional coordinates.
Boxes == { <<10 * Scale, 10 * Scale, 100 * Scale, 100 * Scale>>,
           <<10 * Scale + 1, 20 * Scale + 1, 60 * Scale, 90 * Scale + 1>> }

\* Detection confidences, in tenths.  The code never reads them.
Confs == {5, 9}

Detections == [label : Labels, box : Boxes, conf : Confs]

RECURSIVE SeqsUpTo(_, _)
SeqsUpTo(S, n) ==
    IF n = 0 THEN { <<>> }
    ELSE LET shorter == SeqsUpTo(S, n - 1)
         IN  shorter \cup { Append(s, x) : s \in { t \in shorter : Len(t) = n - 1 }, x \in S }

\* What yolo_model(image_path)[0].boxes may hold.
DetectorOutputs == SeqsUpTo(Detections, MaxDet)

\* What the softmax over the four phrases may be.
Distributions ==
    { p \in [1..4 -> 0..ProbTotal] : p[1] + p[2] + p[3] + p[4] = ProbTotal }

-----------------------------------------------------------------------------
(* detect_and_crop, lines 24-35 *)

\* A label test that also lets "car" through.
IsPetOrCar(label) == label \in {"dog", "cat", "car"}
\* line 31: label in ["dog", "cat"]
IsPet(label) == label \in {"dog", "cat"}

\* A conversion that rounds up instead of dropping the fraction.
intCeil(x) == (x + Scale - 1) \div Scale
\* line 32: int(x) of a float, truncation toward zero
int(x) == IF x >= 0 THEN x \div Scale ELSE -((-x) \div Scale)

\* line 32: x1, y1, x2, y2 = map(int, box)
MapInt(box) == <<int(box[1]), int(box[2]), int(box[3]), int(box[4])>>

\* line 33: Image.open(image_path).crop((x1, y1, x2, y2))
Crop(path, region) == <<path, region>>

Call(fn, args) == [fn |-> fn, args |-> args]

-----------------------------------------------------------------------------
(* classify_mood, lines 40-55 *)

\* A mood list out of step with the keys of the rules table.
moodsRenamed == <<"happy", "sleepy", "playful", "anxious">>
\* line 41
moods == <<"happy", "tired", "playful", "anxious">>

\* line 43: the candidate phrases
Phrases == [k \in 1..4 |-> <<"a", moods[k], "pet">>]

\* An argmax that takes the last index of the maximum.
ArgMaxLast(p) ==
    CHOOSE k \in 1..4 : /\ \A j \in 1..4 : p[j] <= p[k]
                        /\ \A j \in (k+1)..4 : p[j] < p[k]
\* line 54: probs.argmax(), the first index of the maximum
ArgMax(p) ==
    CHOOSE k \in 1..4 : /\ \A j \in 1..4 : p[j] <= p[k]
                        /\ \A j \in 1..(k-1) : p[j] < p[k]

\* A return that reads the probability at index 0.
classify_moodFirstProb(p) == <<moods[ArgMax(p)], p[1]>>
\* line 55
classify_mood(p) == <<moods[ArgMax(p)], p[ArgMax(p)]>>

-----------------------------------------------------------------------------
(* get_recommendation, lines 60-71 *)

rules ==
    (<<"dog", "happy">>   :> "Take your dog for a walk or play fetch (U+1F3BE)") @@
    (<<"dog", "tired">>   :> "Let your dog rest and provide fresh water (U+1F4A7)") @@
    (<<"dog", "playful">> :> "Engage with toys to burn energy (U+1F415)") @@
    (<<"dog", "anxious">> :> "Check if something is stressing your dog (U+1F61F)") @@
    (<<"cat", "happy">>   :> "Give your cat some toys or treats (U+1F431)(U+2728)") @@
    (<<"cat", "tired">>   :> "Let your cat nap in a quiet spot (U+1F4A4)") @@
    (<<"cat", "playful">> :> "Play with a laser pointer or string toy (U+1F3AF)") @@
    (<<"cat", "anxious">> :> "Make sure the environment is calm (U+1F431)(U+1F61F)")

\* A lookup that ignores the pet type.
get_recommendationDogOnly(pt, m) ==
    IF <<"dog", m>> \in DOMAIN rules THEN rules[<<"dog", m>>]
    ELSE "Keep monitoring your pet."
\* line 71: rules.get((pet_type, mood), default)
get_recommendation(pt, m) ==
    IF <<pt, m>> \in DOMAIN rules THEN rules[<<pt, m>>]
    ELSE "Keep monitoring your pet."

-----------------------------------------------------------------------------
(* Formatting, lines 85 and 112 *)

\* n/d rounded to the nearest integer, ties to even.
RoundHalfEven(n, d) ==
    LET q == n \div d
        r == n % d
    IN  IF 2 * r < d THEN q
        ELSE IF 2 * r > d THEN q + 1
        ELSE IF q % 2 = 0 THEN q ELSE q + 1

\* f"{confidence*100:.1f}": the percentage to one decimal, held as the
\* number of tenths of a percent (600 is the text 60.0).
FormatPct(c) == RoundHalfEven(c * 1000, ProbTotal)

\* line 85
Label(pt, m, c) == <<pt, " - ", m, " (", FormatPct(c), "%)">>

\* lines 76-99: the image with the box and the label drawn on it
draw_detection_with_mood(path, box, pt, m, c) ==
    [image |-> path, rectangle |-> box, text |-> Label(pt, m, c)]

\* line 107: truth value of pet_type
Truthy(s) == s # None /\ s # ""

-----------------------------------------------------------------------------
(* The script, lines 104-128 *)

Init ==
    /\ pc = "detect"
    /\ results = <<>>
    /\ i = 0
    /\ pet_type = None
    /\ cropped = NoneObj
    /\ box_coords = NoneObj
    /\ probs = NoneObj
    /\ mood = None
    /\ confidence = NoneNum
    /\ rec = None
    /\ annotated_img = NoneObj
    /\ calls = <<>>

\* lines 105, 25-26: detect_and_crop is entered and the detector is called
CallDetector ==
    /\ pc = "detect"
    /\ \E out \in DetectorOutputs : results' = out
    /\ i' = 0
    /\ calls' = Append(calls, Call("yolo_model", <<image_path>>))
    /\ pc' = "scan"
    /\ UNCHANGED <<pet_type, cropped, box_coords, probs, mood, confidence,
                   rec, annotated_img>>

\* lines 29-31: the next detection is not a dog or a cat
LoopSkip ==
    /\ pc = "scan"
    /\ i < Len(results)
    /\ ~IsPet(results[i + 1].label)
    /\ i' = i + 1
    /\ UNCHANGED <<pc, results, pet_type, cropped, box_coords, probs, mood,
                   confidence, rec, annotated_img, calls>>

\* A scan that returns the dog or cat of highest confidence.
LoopMatchBest ==
    /\ pc = "scan"
    /\ i < Len(results)
    /\ \E k \in 1..Len(results) :
          /\ IsPet(results[k].label)
          /\ \A j \in 1..Len(results) :
                IsPet(results[j].label) =>
                    \/ results[j].conf < results[k].conf
                    \/ results[j].conf = results[k].conf /\ k <= j
          /\ i' = k
          /\ pet_type' = results[k].label
          /\ cropped' = Crop(image_path, MapInt(results[k].box))
          /\ box_coords' = MapInt(results[k].box)
          /\ calls' = Append(calls, Call("crop",
                         <<image_path, MapInt(results[k].box)>>))
    /\ pc' = "branch"
    /\ UNCHANGED <<results, probs, mood, confidence, rec, annotated_img>>

\* A scan that crops on a match but keeps looping, so the last match wins.
LoopMatchNoReturn ==
    /\ pc = "scan"
    /\ i < Len(results)
    /\ IsPet(results[i + 1].label)
    /\ i' = i + 1
    /\ pet_type' = results[i + 1].label
    /\ cropped' = Crop(image_path, MapInt(results[i + 1].box))
    /\ box_coords' = MapInt(results[i + 1].box)
    /\ calls' = Append(calls, Call("crop",
                   <<image_path, MapInt(results[i + 1].box)>>))
    /\ pc' = IF i + 1 = Len(results) THEN "branch" ELSE "scan"
    /\ UNCHANGED <<results, probs, mood, confidence, rec, annotated_img>>

\* lines 29-34, 105: the next detection is a dog or a cat; crop and return
LoopMatch ==
    /\ pc = "scan"
    /\ i < Len(results)
    /\ IsPet(results[i + 1].label)
    /\ i' = i + 1
    /\ LET label == results[i + 1].label
           box   == MapInt(results[i + 1].box)
       IN  /\ pet_type' = label
           /\ cropped' = Crop(image_path, box)
           /\ box_coords' = box
           /\ calls' = Append(calls, Call("crop", <<image_path, box>>))
    /\ pc' = "branch"
    /\ UNCHANGED <<results, probs, mood, confidence, rec, annotated_img>>

\* lines 35, 105: the loop is exhausted; return None, None, None
LoopExit ==
    /\ pc = "scan"
    /\ i = Len(results)
    /\ pet_type' = None
    /\ cropped' = NoneObj
    /\ box_coords' = NoneObj
    /\ pc' = "branch"
    /\ UNCHANGED <<results, i, probs, mood, confidence, rec, annotated_img,
                   calls>>

\* lines 107-108, 40-55: a pet was found; classify the crop
ClassifyMood ==
    /\ pc = "branch"
    /\ Truthy(pet_type)
    /\ \E p \in Distributions :
          /\ probs' = p
          /\ mood' = classify_mood(p)[1]
          /\ confidence' = classify_mood(p)[2]
    /\ calls' = Append(calls, Call("classify_mood", <<cropped>>))
    /\ pc' = "recommend"
    /\ UNCHANGED <<results, i, pet_type, cropped, box_coords, rec,
                   annotated_img>>

\* A script that prints the result before it looks the recommendation up.
RecommendAfterPrint ==
    /\ pc = "recommend"
    /\ rec' = get_recommendation(pet_type, mood)
    /\ calls' = calls \o
          << Call("print", <<"Pet detected: ", pet_type>>),
             Call("print", <<"Mood: ", mood, " (", FormatPct(confidence),
                             "% confidence)">>),
             Call("print", <<"Recommendation: ", rec>>),
             Call("get_recommendation", <<pet_type, mood>>) >>
    /\ pc' = "draw"
    /\ UNCHANGED <<results, i, pet_type, cropped, box_coords, probs, mood,
                   confidence, annotated_img>>

\* line 109
Recommend ==
    /\ pc = "recommend"
    /\ rec' = get_recommendation(pet_type, mood)
    /\ calls' = Append(calls, Call("get_recommendation", <<pet_type, mood>>))
    /\ pc' = "print"
    /\ UNCHANGED <<results, i, pet_type, cropped, box_coords, probs, mood,
                   confidence, annotated_img>>

\* lines 111-113
PrintResult ==
    /\ pc = "print"
    /\ calls' = calls \o
          << Call("print", <<"Pet detected: ", pet_type>>),
             Call("print", <<"Mood: ", mood, " (", FormatPct(confidence),
                             "% confidence)">>),
             Call("print", <<"Recommendation: ", rec>>) >>
    /\ pc' = "draw"
    /\ UNCHANGED <<results, i, pet_type, cropped, box_coords, probs, mood,
                   confidence, rec, annotated_img>>

\* line 116
Draw ==
    /\ pc = "draw"
    /\ annotated_img' = draw_detection_with_mood(image_path, box_coords,
                                                 pet_type, mood, confidence)
    /\ calls' = Append(calls, Call("draw_detection_with_mood",
                   <<image_path, box_coords, pet_type, mood, confidence>>))
    /\ pc' = "show"
    /\ UNCHANGED <<results, i, pet_type, cropped, box_coords, probs, mood,
                   confidence, rec>>

\* lines 119-121
Display ==
    /\ pc = "show"
    /\ calls' = calls \o
          << Call("cv2.imshow", <<"Pet Mood Detection", annotated_img>>),
             Call("cv2.waitKey", <<0>>),
             Call("cv2.destroyAllWindows", <<>>) >>
    /\ pc' = "done"
    /\ UNCHANGED <<results, i, pet_type, cropped, box_coords, probs, mood,
                   confidence, rec, annotated_img>>

\* lines 107, 127-128: no pet was found
PrintNoPet ==
    /\ pc = "branch"
    /\ ~Truthy(pet_type)
    /\ calls' = Append(calls, Call("print", <<"No pet detected in the image.">>))
    /\ pc' = "done"
    /\ UNCHANGED <<results, i, pet_type, cropped, box_coords, probs, mood,
                   confidence, rec, annotated_img>>

Next ==
    \/ CallDetector
    \/ LoopSkip
    \/ LoopMatch
    \/ LoopExit
    \/ ClassifyMood
    \/ Recommend
    \/ PrintResult
    \/ Draw
    \/ Display
    \/ PrintNoPet

Spec == Init /\ [][Next]_vars

-----------------------------------------------------------------------------
(* get_recommendation on its own: any arguments, called repeatedly *)

PetArgs == {"dog", "cat", "car", "bird", "", None}
MoodArgs == {"happy", "tired", "playful", "anxious", "sad", None}

InitRec ==
    /\ pc = "rec"
    /\ results = <<>>
    /\ i = 0
    /\ pet_type \in PetArgs
    /\ cropped = NoneObj
    /\ box_coords = NoneObj
    /\ probs = NoneObj
    /\ mood \in MoodArgs
    /\ confidence = NoneNum
    /\ rec = None
    /\ annotated_img = NoneObj
    /\ calls = <<>>

\* lines 60-71, called with the arguments chosen in InitRec
CallRec ==
    /\ pc = "rec"
    /\ Len(calls) < MaxCalls
    /\ rec' = get_recommendation(pet_type, mood)
    /\ calls' = Append(calls, Call("get_recommendation", <<pet_type, mood>>))
    /\ UNCHANGED <<pc, results, i, pet_type, cropped, box_coords, probs, mood,
                   confidence, annotated_img>>

NextRec == CallRec

SpecRec == InitRec /\ [][NextRec]_vars

-----------------------------------------------------------------------------
(* Vocabulary of the properties *)

PetLabels == {"dog", "cat"}
MoodSet == {"happy", "tired", "playful", "anxious"}
DefaultRec == "Keep monitoring your pet."
NoPetLine == Call("print", <<"No pet detected in the image.">>)

\* The detector has been called / detect_and_crop has returned /
\* classify_mood has returned.
Detected == pc \notin {"detect", "rec"}
Returned == pc \notin {"detect", "scan", "rec"}
Classified == Detected /\ probs # NoneObj

PetAt(k) == results[k].label \in PetLabels
HasPet == \E k \in 1..Len(results) : PetAt(k)
PetCount == Cardinality({k \in 1..Len(results) : PetAt(k)})
FirstPetIndex ==
    CHOOSE k \in 1..Len(results) : PetAt(k) /\ \A j \in 1..(k-1) : ~PetAt(j)

CallsOf(fn) == SelectSeq(calls, LAMBDA c : c.fn = fn)
Count(fn) == Len(CallsOf(fn))
Stdout == CallsOf("print")
FnNames == [k \in 1..Len(calls) |-> calls[k].fn]
IsPrefix(s, t) == Len(s) <= Len(t) /\ \A k \in 1..Len(s) : s[k] = t[k]

\* b is the whole-pixel box obtained from the reported box c (in 1/Scale
\* pixel) by dropping each coordinate's fraction.
Truncated(b, c) ==
    \A j \in 1..4 :
        IF c[j] >= 0 THEN b[j] * Scale <= c[j] /\ c[j] < (b[j] + 1) * Scale
        ELSE b[j] * Scale >= c[j] /\ c[j] > (b[j] - 1) * Scale

\* The recommendation table of the specification, pair by pair.
TableRec(pt, m) ==
    CASE pt = "dog" /\ m = "happy"   -> "Take your dog for a walk or play fetch (U+1F3BE)"
      [] pt = "dog" /\ m = "tired"   -> "Let your dog rest and provide fresh water (U+1F4A7)"
      [] pt = "dog" /\ m = "playful" -> "Engage with toys to burn energy (U+1F415)"
      [] pt = "dog" /\ m = "anxious" -> "Check if something is stressing your dog (U+1F61F)"
      [] pt = "cat" /\ m = "happy"   -> "Give your cat some toys or treats (U+1F431)(U+2728)"
      [] pt = "cat" /\ m = "tired"   -> "Let your cat nap in a quiet spot (U+1F4A4)"
      [] pt = "cat" /\ m = "playful" -> "Play with a laser pointer or string toy (U+1F3AF)"
      [] pt = "cat" /\ m = "anxious" -> "Make sure the environment is calm (U+1F431)(U+1F61F)"
      [] OTHER -> DefaultRec

\* The index of the largest probability, the lowest one on a tie.
IsFirstMax(k) ==
    /\ \A j \in 1..4 : probs[j] <= probs[k]
    /\ \A j \in 1..(k-1) : probs[j] < probs[k]

-----------------------------------------------------------------------------
(* Properties *)

\* C1: when no detection is labelled dog or cat (the empty output included),
\* the run makes no crop, classify_mood, get_recommendation,
\* draw_detection_with_mood or display call at any point, it can always take
\* its next step until it is done, and what it has printed when it is done is
\* exactly "No pet detected in the image.".
C1_NoPetNoCalls ==
    (Detected /\ ~HasPet) =>
        /\ \A k \in 1..Len(calls) : calls[k].fn \in {"yolo_model", "print"}
        /\ pc # "done" => ENABLED Next
        /\ pc # "done" => Stdout = <<>>
        /\ pc = "done" => Stdout = <<NoPetLine>>

C1_Witness ==
    /\ pc = "done"
    /\ Len(results) >= 1
    /\ ~HasPet
    /\ Stdout = <<NoPetLine>>

\* C2: when some detection is labelled dog or cat, detect_and_crop returns
\* the one at the smallest such index, whatever the confidences are: the scan
\* stopped there, the label is that detection's and the box is that
\* detection's box in whole pixels.
C2_FirstMatchWins ==
    (Returned /\ HasPet) =>
        /\ i = FirstPetIndex
        /\ pet_type = results[FirstPetIndex].label
        /\ Truncated(box_coords, results[FirstPetIndex].box)
        /\ cropped = <<image_path, box_coords>>

C2_Witness ==
    /\ Returned
    /\ Len(results) = 2
    /\ PetAt(1) /\ PetAt(2)
    /\ results[2].conf > results[1].conf
    /\ results[2].label # results[1].label
    /\ results[2].box # results[1].box
    /\ pet_type = results[1].label
    /\ i = 1

\* C3 as stated: with exactly one detection labelled dog or cat, the returned
\* label is its label, the returned box equals its reported coordinates, and
\* the crop is taken with those coordinates.
C3_BoxEqualsReported ==
    (Returned /\ PetCount = 1) =>
        /\ pet_type = results[FirstPetIndex].label
        /\ \A j \in 1..4 : box_coords[j] * Scale = results[FirstPetIndex].box[j]
        /\ cropped = <<image_path, box_coords>>

\* C3 amended: with exactly one detection labelled dog or cat, the returned
\* label is its label, the returned box is its reported coordinates with each
\* fraction dropped (int() of each coordinate), and the crop is taken with
\* exactly the returned coordinates.
C3_BoxIsTruncatedReported ==
    (Returned /\ PetCount = 1) =>
        /\ pet_type = results[FirstPetIndex].label
        /\ Truncated(box_coords, results[FirstPetIndex].box)
        /\ cropped = <<image_path, box_coords>>
        /\ CallsOf("crop") = <<Call("crop", <<image_path, box_coords>>)>>

C3_Witness ==
    /\ Returned
    /\ PetCount = 1
    /\ Len(results) = 2
    /\ \E j \in 1..4 : box_coords[j] * Scale # results[FirstPetIndex].box[j]
    /\ pet_type = results[FirstPetIndex].label

\* C4: detect_and_crop returns either a label in {dog, cat} with a crop and a
\* box, or (None, None, None), never a partly null triple; with no detection
\* labelled dog or cat it returns the latter, and the scan can always take
\* its next step, so it ends by returning.
C4_TripleOrSentinel ==
    /\ pc = "scan" => ENABLED (LoopSkip \/ LoopMatch \/ LoopExit)
    /\ Returned =>
        /\ \/ pet_type = None /\ cropped = NoneObj /\ box_coords = NoneObj
           \/ /\ pet_type \in PetLabels
              /\ cropped # NoneObj /\ Len(cropped) = 2
              /\ box_coords # NoneObj /\ Len(box_coords) = 4
        /\ ~HasPet => pet_type = None /\ cropped = NoneObj /\ box_coords = NoneObj

C4_Witness ==
    /\ Returned
    /\ Len(results) = 2
    /\ ~HasPet
    /\ pet_type = None /\ cropped = NoneObj /\ box_coords = NoneObj

\* C5: get_recommendation returns the pair's table string, which is not
\* empty, for the 8 pairs of {dog, cat} x {happy, tired, playful, anxious} and
\* "Keep monitoring your pet." for every other pair, and it does so on every
\* one of its repeated calls with the same arguments.
C5_RecommendationTotal ==
    (pc = "rec" /\ Len(calls) >= 1) =>
        /\ rec = TableRec(pet_type, mood)
        /\ rec # ""
        /\ (pet_type \in PetLabels /\ mood \in MoodSet) => rec # DefaultRec
        /\ ~(pet_type \in PetLabels /\ mood \in MoodSet) => rec = DefaultRec

C5_Witness ==
    /\ pc = "rec"
    /\ Len(calls) >= 2
    /\ pet_type = "cat" /\ mood = "sad"
    /\ rec = DefaultRec

\* C6: the mood classify_mood returns is one of the four moods, it is the
\* one at the index of the largest probability (the lowest such index on a
\* tie), and the confidence returned is the probability at that index.
C6_ArgMaxFirst ==
    Classified =>
        /\ mood \in MoodSet
        /\ \E k \in 1..4 :
              /\ IsFirstMax(k)
              /\ mood = <<"happy", "tired", "playful", "anxious">>[k]
              /\ confidence = probs[k]

C6_Witness ==
    /\ Classified
    /\ \E k \in 1..4 : \E j \in (k+1)..4 :
          /\ IsFirstMax(k)
          /\ probs[j] = probs[k]
          /\ mood = <<"happy", "tired", "playful", "anxious">>[k]

\* C7: in a run that found a pet, the printed pet type is the first dog/cat
\* detection's label, the classifier was given the crop of that detection,
\* the printed mood and confidence are the first-max mood and its
\* probability, and the printed recommendation is the table entry of that
\* pet type and mood.
C7_ReportedResult ==
    (pc \in {"draw", "show", "done"} /\ HasPet) =>
        \E k \in 1..4 :
            /\ IsFirstMax(k)
            /\ CallsOf("classify_mood") =
                   <<Call("classify_mood", <<<<image_path, box_coords>>>>)>>
            /\ Truncated(box_coords, results[FirstPetIndex].box)
            /\ Stdout =
                 << Call("print", <<"Pet detected: ", results[FirstPetIndex].label>>),
                    Call("print", <<"Mood: ", <<"happy", "tired", "playful", "anxious">>[k],
                                    " (", FormatPct(probs[k]), "% confidence)">>),
                    Call("print", <<"Recommendation: ",
                                    TableRec(results[FirstPetIndex].label,
                                             <<"happy", "tired", "playful", "anxious">>[k])>>) >>

\* The scenario of the specification: one dog, probabilities 0.1 0.6 0.2 0.1.
C7_Witness ==
    /\ pc = "done"
    /\ Len(results) = 1
    /\ results[1].label = "dog"
    /\ box_coords = <<10, 10, 100, 100>>
    /\ results[1].conf = 9
    /\ \A j \in 1..4 : probs[j] * 10 = <<1, 6, 2, 1>>[j] * ProbTotal
    /\ mood = "tired"
    /\ FormatPct(confidence) = 600
    /\ rec = "Let your dog rest and provide fresh water (U+1F4A7)"
    /\ Stdout[3] = Call("print", <<"Recommendation: ", rec>>)

\* C8: a run makes at most one detector call, one crop, one classify_mood
\* call, one get_recommendation call and one draw_detection_with_mood call,
\* and the scan never takes a detection after the first dog or cat.
C8_AtMostOnePet ==
    /\ Count("yolo_model") <= 1
    /\ Count("crop") <= 1
    /\ Count("classify_mood") <= 1
    /\ Count("get_recommendation") <= 1
    /\ Count("draw_detection_with_mood") <= 1
    /\ (Detected /\ HasPet) => i <= FirstPetIndex
    /\ (Returned /\ HasPet) => i = FirstPetIndex /\ Count("crop") = 1

C8_Witness ==
    /\ pc = "done"
    /\ Len(results) = 2
    /\ PetAt(1) /\ PetAt(2)
    /\ i = 1
    /\ Count("crop") = 1
    /\ Count("classify_mood") = 1
    /\ Count("get_recommendation") = 1
    /\ Count("draw_detection_with_mood") = 1

PetOrder ==
    << "yolo_model", "crop", "classify_mood", "get_recommendation",
       "print", "print", "print", "draw_detection_with_mood",
       "cv2.imshow", "cv2.waitKey", "cv2.destroyAllWindows" >>

NoPetOrder == << "yolo_model", "print" >>

\* C9: the calls of a run occur in the order detector, crop, classify_mood,
\* get_recommendation, output, draw_detection_with_mood, display (or
\* detector, output when no pet is found); classify_mood is given a crop that
\* exists, get_recommendation a mood that classify_mood has returned, and
\* draw_detection_with_mood a box and a mood result that exist.
C9_StageOrder ==
    /\ IsPrefix(FnNames, PetOrder) \/ IsPrefix(FnNames, NoPetOrder)
    /\ \A k \in 1..Len(calls) :
          /\ calls[k].fn = "classify_mood" =>
                /\ calls[k].args[1] # NoneObj
                /\ calls[k].args[1] = cropped
          /\ calls[k].fn = "get_recommendation" =>
                /\ calls[k].args[2] # None
                /\ calls[k].args[2] = mood
          /\ calls[k].fn = "draw_detection_with_mood" =>
                /\ calls[k].args[2] # NoneObj /\ calls[k].args[2] = box_coords
                /\ calls[k].args[4] # None /\ calls[k].args[4] = mood
                /\ calls[k].args[5] # NoneNum /\ calls[k].args[5] = confidence

C9_Witness ==
    /\ pc = "done"
    /\ FnNames = PetOrder

\* C10: within the script get_recommendation is only called with a pet type
\* in {dog, cat} and a mood in {happy, tired, playful, anxious}, and the
\* recommendation is never "Keep monitoring your pet.".
C10_NoDefaultInPipeline ==
    /\ \A k \in 1..Len(calls) :
          calls[k].fn = "get_recommendation" =>
              /\ calls[k].args[1] \in PetLabels
              /\ calls[k].args[2] \in MoodSet
    /\ rec # DefaultRec
    /\ \A k \in 1..Len(Stdout) :
          Stdout[k].args[1] = "Recommendation: " => Stdout[k].args[2] # DefaultRec

C10_Witness ==
    /\ pc = "done"
    /\ Count("get_recommendation") = 1
    /\ pet_type = "cat"
    /\ mood = "anxious"
    /\ rec = "Make sure the environment is calm (U+1F431)(U+1F61F)"

=============================================================================
